---- MODULE Spec2Model ----
(***************************************************************************)
(* Model of metadata-manipulator: the EXIF creation-date handler           *)
(* (src/image_utils.py, class EXIFHandler), its module-level twin          *)
(* (src/image_functions.py) and the batch pipeline (src/main.py,           *)
(* class EXIFProcessor).                                                   *)
(*                                                                         *)
(* Text is a sequence of one-character strings, so that slicing            *)
(* (date_str[11:13]), formatting (strftime) and parsing (strptime) are     *)
(* computed character by character.  Python offsets are 0-based, TLA+      *)
(* sequences 1-based: Python's s[k] is s[k+1] here.                        *)
(***************************************************************************)
EXTENDS Integers, Sequences, FiniteSets, TLC

\* ------------------------------------------------------------------ bounds
\* Most image files a scanned directory holds.
MaxFiles == 3
\* Most handler calls made in a row on the one file of SpecHandler.
MaxCalls == 3
\* Most process_directory runs over the same directory.
MaxRuns == 2

\* -------------------------------------------------------------- characters
Digits == {"0", "1", "2", "3", "4", "5", "6", "7", "8", "9"}

DigitChars == <<"0", "1", "2", "3", "4", "5", "6", "7", "8", "9">>

\* The character of a one-digit number, and back.
DigitOf(n) == DigitChars[n + 1]

ValOf(c) == CHOOSE n \in 0..9 : DigitChars[n + 1] = c

\* Characters \s of a Python regular expression that the inputs use.
Whitespace == {" "}

\* The character at 1-based position i, "$" past either end of the text.
At(s, i) == IF i >= 1 /\ i <= Len(s) THEN s[i] ELSE "$"

\* Python's s[a:b] for 0 <= a <= b (0-based, clipped to the text's length).
Slice(s, a, b) ==
    LET lo == IF a < Len(s) THEN a ELSE Len(s)
        hi == IF b < Len(s) THEN b ELSE Len(s)
    IN  IF hi <= lo THEN << >> ELSE SubSeq(s, lo + 1, hi)

\* Python's s[a:].
SliceFrom(s, a) == Slice(s, a, Len(s))

\* ------------------------------------------------------------- date-times
\* datetime(year, month, day, hour, minute, second): no timezone, no
\* sub-second part.
Dt(y, mo, d, h, mi, s) ==
    [year |-> y, month |-> mo, day |-> d, hour |-> h, minute |-> mi, second |-> s]

\* A place holder where a call returned no date-time.
NoDt == Dt(0, 0, 0, 0, 0, 0)

\* datetime.__gt__ on naive values: lexicographic on the six fields.
DtGreater(a, b) ==
    \/ a.year > b.year
    \/ a.year = b.year /\ a.month > b.month
    \/ a.year = b.year /\ a.month = b.month /\ a.day > b.day
    \/ a.year = b.year /\ a.month = b.month /\ a.day = b.day /\ a.hour > b.hour
    \/ a.year = b.year /\ a.month = b.month /\ a.day = b.day /\ a.hour = b.hour
       /\ a.minute > b.minute
    \/ a.year = b.year /\ a.month = b.month /\ a.day = b.day /\ a.hour = b.hour
       /\ a.minute = b.minute /\ a.second > b.second

IsLeap(y) == (y % 4 = 0 /\ y % 100 # 0) \/ y % 400 = 0

DaysInMonth(y, mo) ==
    IF mo = 2 THEN (IF IsLeap(y) THEN 29 ELSE 28)
    ELSE IF mo \in {4, 6, 9, 11} THEN 30 ELSE 31

\* --------------------------------------------------------------- strftime
\* Two digits, zero filled: %m %d %H %M %S.
Pad2(n) == <<DigitOf(n \div 10), DigitOf(n % 10)>>

\* Four digits, zero filled.
Pad4(n) == <<DigitOf(n \div 1000), DigitOf((n \div 100) % 10),
             DigitOf((n \div 10) % 10), DigitOf(n % 10)>>

\* The decimal digits of n without leading zeros.
RECURSIVE Decimal(_)
Decimal(n) == IF n < 10 THEN <<DigitOf(n)>>
              ELSE Append(Decimal(n \div 10), DigitOf(n % 10))

\* %Y is handed to the C library: glibc prints the year without zero fill
\* (datetime(999, 1, 1).strftime("%Y") is "999" there), other C libraries
\* fill to four digits.  pad says which library the build runs on.
YearText(y, pad) == IF pad THEN Pad4(y) ELSE Decimal(y)

\* new_date.strftime("%Y:%m:%d %H:%M:%S")
Strftime(d, pad) ==
    YearText(d.year, pad) \o <<":">> \o Pad2(d.month) \o <<":">> \o Pad2(d.day)
    \o <<" ">> \o Pad2(d.hour) \o <<":">> \o Pad2(d.minute) \o <<":">>
    \o Pad2(d.second)

\* --------------------------------------------------------------- strptime
\* Each Match* gives the number of characters the directive's regular
\* expression takes at position p (0: no match).  The alternatives are tried
\* in the order of the expression; every directive but the last is followed
\* by a character that is no digit, so backtracking into a shorter
\* alternative can never rescue a match and the first alternative that
\* matches is the one the whole expression uses.

\* %Y: \d\d\d\d
MatchYear(s, p) ==
    IF \A k \in 0..3 : At(s, p + k) \in Digits THEN 4 ELSE 0

\* %m: 1[0-2]|0[1-9]|[1-9]
MatchMonth(s, p) ==
    LET a == At(s, p)
        b == At(s, p + 1)
    IN  IF a = "1" /\ b \in {"0", "1", "2"} THEN 2
        ELSE IF a = "0" /\ b \in Digits \ {"0"} THEN 2
        ELSE IF a \in Digits \ {"0"} THEN 1
        ELSE 0

\* %d: 3[0-1]|[1-2]\d|0[1-9]|[1-9]| [1-9]
MatchDay(s, p) ==
    LET a == At(s, p)
        b == At(s, p + 1)
    IN  IF a = "3" /\ b \in {"0", "1"} THEN 2
        ELSE IF a \in {"1", "2"} /\ b \in Digits THEN 2
        ELSE IF a = "0" /\ b \in Digits \ {"0"} THEN 2
        ELSE IF a \in Digits \ {"0"} THEN 1
        ELSE IF a = " " /\ b \in Digits \ {"0"} THEN 2
        ELSE 0

\* The blank of the format becomes \s+: one or more whitespace characters.
RECURSIVE MatchSpaces(_, _)
MatchSpaces(s, p) ==
    IF At(s, p) \in Whitespace THEN 1 + MatchSpaces(s, p + 1) ELSE 0

\* %H: 2[0-3]|[0-1]\d|\d
MatchHour(s, p) ==
    LET a == At(s, p)
        b == At(s, p + 1)
    IN  IF a = "2" /\ b \in {"0", "1", "2", "3"} THEN 2
        ELSE IF a \in {"0", "1"} /\ b \in Digits THEN 2
        ELSE IF a \in Digits THEN 1
        ELSE 0

\* %M: [0-5]\d|\d
MatchMinute(s, p) ==
    LET a == At(s, p)
        b == At(s, p + 1)
    IN  IF a \in {"0", "1", "2", "3", "4", "5"} /\ b \in Digits THEN 2
        ELSE IF a \in Digits THEN 1
        ELSE 0

\* %S: 6[0-1]|[0-5]\d|\d
MatchSecond(s, p) ==
    LET a == At(s, p)
        b == At(s, p + 1)
    IN  IF a = "6" /\ b \in {"0", "1"} THEN 2
        ELSE IF a \in {"0", "1", "2", "3", "4", "5"} /\ b \in Digits THEN 2
        ELSE IF a \in Digits THEN 1
        ELSE 0

\* The number the n digits at position p spell (a day of " 5" spells 5).
RECURSIVE NumAt(_, _, _)
NumAt(s, p, n) ==
    IF n = 0 THEN 0
    ELSE LET c == At(s, p + n - 1)
             v == IF c \in Digits THEN ValOf(c) ELSE 0
             rest == NumAt(s, p, n - 1)
         IN  rest * 10 + v

\* What a failed parse gives: strptime raised ValueError.
Failed == [ok |-> FALSE, dt |-> NoDt]

\* The element of a set of one element.
The(S) == CHOOSE x \in S : TRUE

\* The number of characters each directive after %Y takes in s (0: it does
\* not match), each matched where the one before it and the separator after
\* that end.  The year takes positions 1 to 4 and its colon position 5, so
\* the month starts at position 6.
Widths(s) ==
    The({ The({ The({ The({ The({
        [mo |-> mo, d |-> d, sp |-> sp, h |-> h, mi |-> mi,
         se |-> MatchSecond(s, 6 + mo + 1 + d + sp + h + 1 + mi + 1)]
        : mi \in {MatchMinute(s, 6 + mo + 1 + d + sp + h + 1)} })
        : h \in {MatchHour(s, 6 + mo + 1 + d + sp)} })
        : sp \in {MatchSpaces(s, 6 + mo + 1 + d)} })
        : d \in {MatchDay(s, 6 + mo + 1)} })
        : mo \in {MatchMonth(s, 6)} })

\* Where each directive starts when the directives take the widths w.
PosDay(w) == 6 + w.mo + 1

PosHour(w) == PosDay(w) + w.d + w.sp

PosMinute(w) == PosHour(w) + w.h + 1

PosSecond(w) == PosMinute(w) + w.mi + 1

\* The format's expression matches a prefix of s, its directives taking the
\* widths w.
Matches(s, w) ==
    /\ MatchYear(s, 1) = 4 /\ At(s, 5) = ":"
    /\ w.mo > 0 /\ At(s, 6 + w.mo) = ":"
    /\ w.d > 0
    /\ w.sp > 0
    /\ w.h > 0 /\ At(s, PosHour(w) + w.h) = ":"
    /\ w.mi > 0 /\ At(s, PosMinute(w) + w.mi) = ":"
    /\ w.se > 0

\* What strptime makes of s when its directives take the widths w: the
\* expression must match, the match must end where the text ends
\* ("unconverted data remains"), and the fields must make a date-time
\* (year 0, 30 February and second 60 are refused).
Converted(s, w) ==
    IF ~Matches(s, w) THEN Failed
    ELSE IF PosSecond(w) + w.se - 1 # Len(s) THEN Failed
    ELSE IF \/ NumAt(s, 1, 4) < 1
            \/ NumAt(s, PosDay(w), w.d) > DaysInMonth(NumAt(s, 1, 4), NumAt(s, 6, w.mo))
            \/ NumAt(s, PosSecond(w), w.se) > 59
         THEN Failed
    ELSE [ok |-> TRUE,
          dt |-> Dt(NumAt(s, 1, 4), NumAt(s, 6, w.mo), NumAt(s, PosDay(w), w.d),
                    NumAt(s, PosHour(w), w.h), NumAt(s, PosMinute(w), w.mi),
                    NumAt(s, PosSecond(w), w.se))]

\* datetime.strptime(s, "%Y:%m:%d %H:%M:%S").  Every failure is a ValueError.
Strptime(s) == The({ Converted(s, w) : w \in {Widths(s)} })

\* ------------------------------------------------------ metadata container
\* Tag numbers of the three date tags (piexif.ImageIFD.DateTime,
\* piexif.ExifIFD.DateTimeOriginal, piexif.ExifIFD.DateTimeDigitized) and of
\* the tags the handler never touches that the input files carry (Make).
DateTime == 306

DateTimeOriginal == 36867

DateTimeDigitized == 36868

OtherTags == {271}

\* An IFD (one section of the container) is a Python dict from tag numbers to
\* values, held as a set of <<tag, value>> pairs with one pair per tag.
HasTag(ifd, tag) == \E p \in ifd : p[1] = tag

\* dict.get(tag): the value, << >> standing for None.
GetTag(ifd, tag) ==
    IF HasTag(ifd, tag) THEN (CHOOSE p \in ifd : p[1] = tag)[2] ELSE << >>

\* ifd[tag] = value
SetTag(ifd, tag, value) == {p \in ifd : p[1] # tag} \cup {<<tag, value>>}

\* A new container with a section nobody asked for.
NewExifDictWithGps == [sec \in {"0th", "Exif", "GPS"} |-> {}]

\* {"0th": {}, "Exif": {}}: the container made for a file without one.
NewExifDict == [sec \in {"0th", "Exif"} |-> {}]

\* exif_dict[sec][tag] = value
SetIn(exif_dict, sec, tag, value) ==
    [exif_dict EXCEPT ![sec] = SetTag(exif_dict[sec], tag, value)]

\* An image file: whether Image.open succeeds on it, whether a metadata
\* block can be written into it, and its metadata block if it has one.
ImageFile(openable, writable, has_exif, exif) ==
    [openable |-> openable, writable |-> writable, has_exif |-> has_exif,
     exif |-> exif]

\* ----------------------------------------------------------------- results
LogRecord(level, what, text) == [level |-> level, what |-> what, text |-> text]

Return(value, log) == [kind |-> "return", value |-> value, exc |-> "", log |-> log]

Raise(exc, log) == [kind |-> "raise", value |-> NoDt, exc |-> exc, log |-> log]

\* The warnings among the log records of a call.
Warnings(log) == SelectSeq(log, LAMBDA r : r.level = "warning")

\* ------------------------------------------------------------- EXIFHandler
\* EXIFHandler._VALID_HOURS
VALID_HOURS == {Pad2(h) : h \in 0..23}

\* The repair with the guard of the module-level variant: only texts of 20
\* characters or more are repaired.
fix_invalid_hours_guarded(date_str) ==
    IF Len(date_str) >= 20 /\ Slice(date_str, 11, 13) \notin VALID_HOURS
    THEN [str |-> Slice(date_str, 0, 11) \o <<"0", "0">> \o SliceFrom(date_str, 13),
          log |-> <<LogRecord("warning", "invalid_hour", date_str)>>]
    ELSE [str |-> date_str, log |-> << >>]

\* EXIFHandler._fix_invalid_hours: the text to parse and what was logged.
fix_invalid_hours(date_str) ==
    IF Slice(date_str, 11, 13) \notin VALID_HOURS
    THEN [str |-> Slice(date_str, 0, 11) \o <<"0", "0">> \o SliceFrom(date_str, 13),
          log |-> <<LogRecord("warning", "invalid_hour", date_str)>>]
    ELSE [str |-> date_str, log |-> << >>]

\* A parse that swallows the failure and gives the default date instead.
parse_datetime_lenient(date_str, log) ==
    The({ IF r.ok THEN Return(r.dt, log) ELSE Return(Dt(9999, 1, 1, 0, 0, 0), log)
          : r \in {Strptime(date_str)} })

\* EXIFHandler._parse_datetime
parse_datetime(date_str, log) ==
    The({ IF r.ok THEN Return(r.dt, log)
          ELSE Raise("ValueError",
                     Append(log, LogRecord("error", "invalid_format", date_str)))
          : r \in {Strptime(date_str)} })

\* img.getexif().get(piexif.ImageIFD.DateTime): the DateTime tag of the
\* primary section, << >> (None) without a block or without the tag.
read_date_str(file) ==
    IF file.has_exif THEN GetTag(file.exif["0th"], DateTime) ELSE << >>

\* EXIFHandler.get_image_date
get_image_date(file, default_date) ==
    IF ~file.openable THEN Raise("OSError", << >>)
    ELSE LET date_str == read_date_str(file)
         IN  IF date_str = << >>
             THEN Return(default_date, <<LogRecord("warning", "no_date", << >>)>>)
             ELSE LET fixed == fix_invalid_hours(date_str)
                  IN  parse_datetime(fixed.str, fixed.log)

\* EXIFHandler._load_exif_data: the file's container, or a new one when the
\* file has no block (KeyError on img.info["exif"]).
load_exif_data(file) == IF file.has_exif THEN file.exif ELSE NewExifDict

\* The container update_exif_date builds before saving it.
dated_exif_dict(exif_dict, date_bytes) ==
    SetIn(SetIn(SetIn(exif_dict, "Exif", DateTimeOriginal, date_bytes),
                "Exif", DateTimeDigitized, date_bytes),
          "0th", DateTime, date_bytes)

\* EXIFHandler.update_exif_date: whether it raised, and the file afterwards.
\* A failure to open, encode or write is wrapped into RuntimeError and leaves
\* the file as it was.
update_exif_date(file, new_date, pad) ==
    IF ~file.openable \/ ~file.writable
    THEN [kind |-> "raise", exc |-> "RuntimeError", file |-> file]
    ELSE LET date_bytes == Strftime(new_date, pad)
             exif_dict == dated_exif_dict(load_exif_data(file), date_bytes)
         IN  [kind |-> "return", exc |-> "",
              file |-> [file EXCEPT !.has_exif = TRUE, !.exif = exif_dict]]

\* ------------------------------------------- image_functions.get_image_date
\* The module-level variant: no default date, and the hour is repaired only
\* when it is "24" in a text of 20 characters or more.
fn_get_image_date(file) ==
    IF ~file.openable THEN Raise("OSError", << >>)
    ELSE LET creation_date == read_date_str(file)
         IN  IF creation_date = << >> THEN Raise("RuntimeError", << >>)
             ELSE LET repair == Len(creation_date) >= 20
                                /\ Slice(creation_date, 11, 13) = <<"2", "4">>
                      text == IF repair
                              THEN Slice(creation_date, 0, 11) \o <<"0", "0">>
                                   \o SliceFrom(creation_date, 13)
                              ELSE creation_date
                      log == IF repair
                             THEN <<LogRecord("warning", "invalid_hour", creation_date)>>
                             ELSE << >>
                      r == Strptime(text)
                  IN  IF r.ok THEN Return(r.dt, log) ELSE Raise("ValueError", log)

\* ------------------------------------------------------------------ state
VARIABLES
    files,          \* the image files of the directory, in scan order
    max_date,       \* EXIFProcessor.max_date
    change_date,    \* EXIFProcessor.change_date
    default_date,   \* EXIFHandler.default_date
    padYear,        \* whether the C library zero-fills %Y
    pc,             \* where process_directory stands ("api": direct calls)
    idx,            \* the file the for loop is at (0 before the first)
    file_count,     \* process_directory's file_count
    updated_count,  \* process_directory's updated_count
    need,           \* what _needs_update returned for the current file
    status,         \* per file: how far the current run got with it
    extracted,      \* per file: what get_image_date gave in the current run
    update_calls,   \* the files update_exif_date was called on in this run
    reported,       \* the files _handle_error reported in this run
    summary,        \* the numbers of the final print of the current run
    run,            \* the number of process_directory runs started
    files0,         \* the files as they were when the current run started
    before,         \* what the previous run left: status, summary, calls
    last,           \* the latest direct handler call and its outcome
    prev,           \* the direct handler call before it
    ncalls          \* the number of direct handler calls made

vars == <<files, max_date, change_date, default_date, padYear, pc, idx,
          file_count, updated_count, need, status, extracted, update_calls,
          reported, summary, run, files0, before, last, prev, ncalls>>

configVars == <<max_date, change_date, default_date, padYear>>

batchVars == <<pc, idx, file_count, updated_count, need, status, extracted,
               update_calls, reported, summary, run, files0, before>>

callVars == <<last, prev, ncalls>>

\* ----------------------------------------------------------------- inputs
\* datetime(9999, 1, 1): the default of EXIFHandler.__init__.
Sentinel == Dt(9999, 1, 1, 0, 0, 0)

\* MAX_DATE and CHANGE_DATE of main().
MAX_DATE == Dt(2025, 1, 1, 1, 1, 1)

CHANGE_DATE == Dt(2025, 1, 1, 0, 0, 0)

\* Other date-times the inputs use: a year below 1000, a date below the
\* threshold of main(), a date above it, the last second of a leap day.
D999 == Dt(999, 1, 1, 0, 0, 0)

D2020 == Dt(2020, 1, 1, 10, 0, 0)

D2025 == Dt(2025, 6, 1, 0, 0, 0)

DLeap == Dt(2024, 2, 29, 23, 59, 59)

\* A container as piexif.load returns it for a file whose primary section
\* holds the tags of ifd0 (beside the sections piexif always lists).
LoadedExif(ifd0) ==
    [sec \in {"0th", "Exif", "GPS"} |-> IF sec = "0th" THEN ifd0 ELSE {}]

MakeTags == {<<t, <<"X">>>> : t \in OtherTags}

\* A readable, writable file whose DateTime tag holds the text s.
FileWithDate(s) ==
    ImageFile(TRUE, TRUE, TRUE, LoadedExif(MakeTags \cup {<<DateTime, s>>}))

\* A file without a metadata block.
FileWithoutExif(writable) == ImageFile(TRUE, writable, FALSE, NewExifDict)

\* A file whose metadata block holds no DateTime tag.
FileWithoutDate == ImageFile(TRUE, TRUE, TRUE, LoadedExif(MakeTags))

\* A file Image.open fails on.
FileUnreadable == ImageFile(FALSE, FALSE, FALSE, NewExifDict)

\* The texts of the date part, the hour field and the rest that the stored
\* creation dates are put together from.
DateParts ==
    { <<"2", "0", "2", "3", ":", "0", "8", ":", "1", "5">>,
      <<"2", "0", "2", "3", ":", "0", "2", ":", "3", "0">>,
      <<"2", "0", "2", "4", ":", "0", "2", ":", "2", "9">> }

HourFields ==
    { <<"0", "0">>, <<"0", "9">>, <<"2", "3">>, <<"2", "4">>, <<"2", "5">>,
      <<"2", "X">>, <<" ", "7">> }

Rests ==
    { <<":", "3", "0", ":", "0", "0">>, <<":", "5", "9", ":", "5", "9">>,
      <<":", "3", ":", "5">>, <<":", "0", "0", ":", "6", "0">> }

Suffixes == { << >>, <<"X">>, <<"0">>, <<" ">>, <<"0", "X">> }

CutLengths == {0, 5, 11, 12, 13, 16, 18}

BaseStrings ==
    { d \o <<" ">> \o h \o r : d \in DateParts, h \in HourFields, r \in Rests }

\* Texts that put the fields at other offsets than the canonical ones.
OddStrings ==
    { <<"2", "0", "2", "3", ":", "8", ":", "5", " ", "1", ":", "2", "4", ":", "0", "0">>,
      <<"2", "0", "2", "3", ":", "0", "8", ":", "1", "5", " ", " ", "0", "7", ":",
        "3", "0", ":", "0", "0">>,
      <<"9", "9", "9", ":", "0", "1", ":", "0", "1", " ", "0", "0", ":", "0", "0",
        ":", "0", "0">> }

\* The stored creation dates: canonical texts with valid and invalid hours,
\* the same with characters after them, and the same cut short.
DateStrings ==
    { b \o x : b \in BaseStrings, x \in Suffixes }
    \cup { Slice(b, 0, n) : b \in BaseStrings, n \in CutLengths }
    \cup OddStrings

\* The one file of SpecHandler.
HandlerFiles ==
    { FileWithDate(s) : s \in DateStrings }
    \cup { FileWithoutExif(w) : w \in BOOLEAN }
    \cup { FileWithoutDate, FileUnreadable }

\* The date-times update_exif_date is called with.
UpdateDates == {D999, D2025, DLeap}

\* The files a scanned directory is made of.
BatchFiles ==
    { FileWithoutExif(TRUE),
      FileWithDate(Strftime(D2020, TRUE)),
      FileWithDate(Strftime(D2025, TRUE)),
      [FileWithDate(Strftime(D2025, TRUE)) EXCEPT !.writable = FALSE],
      FileWithDate(Strftime(D2025, TRUE) \o <<"X">>),
      FileUnreadable }

Directories == UNION { [1..n -> BatchFiles] : n \in 0..MaxFiles }

\* The (max_date, change_date) pairs: those of main(), a replacement above
\* the threshold, one equal to it, and a replacement of a year below 1000.
Configs ==
    { <<MAX_DATE, CHANGE_DATE>>, <<D2020, D2025>>, <<D2025, D2025>>,
      <<MAX_DATE, D999>> }

NoCall == [op |-> "none", arg |-> NoDt, had_exif |-> FALSE, read |-> << >>,
           kind |-> "", value |-> NoDt, exc |-> "", log |-> << >>]

NoSummary == [processed |-> -1, updated |-> -1]

NoRun == [status |-> << >>, summary |-> NoSummary, update_calls |-> {},
          reported |-> {}]

\* ----------------------------------------------------- the batch pipeline
\* The comparison with >= in place of >.
needs_update_ge(file_date, threshold) == ~DtGreater(threshold, file_date)

\* EXIFProcessor._needs_update's comparison: file_date > self.max_date.
needs_update(file_date, threshold) == DtGreater(file_date, threshold)

\* An exception that ends the run.
after_error_abort == "aborted"

\* An exception that is swallowed inside the try block, so that the update
\* follows.
after_error_falls_through == "update"

\* Where process_directory goes on after the except clause has handed the
\* exception to _handle_error: to the next file of the loop.
after_error == "loop"

\* The increment put before the call: a failed update is counted too.
count_update_always(count, outcome) == count + 1

\* updated_count after _update_file: the increment follows the call, so an
\* update that raises skips it.
count_update(count, outcome) ==
    IF outcome.kind = "return" THEN count + 1 ELSE count

\* The state a file of the current run is in once get_image_date is through.
extract_status(result) ==
    IF result.kind = "return" THEN "date-extracted" ELSE "extract-failed"

BatchInit ==
    /\ files \in Directories
    /\ \E c \in Configs : max_date = c[1] /\ change_date = c[2]
    /\ default_date = Sentinel
    /\ padYear \in BOOLEAN
    /\ pc = "idle"
    /\ idx = 0
    /\ file_count = 0
    /\ updated_count = 0
    /\ need = FALSE
    /\ status = [i \in 1..Len(files) |-> "unseen"]
    /\ extracted = [i \in 1..Len(files) |-> NoCall]
    /\ update_calls = {}
    /\ reported = {}
    /\ summary = NoSummary
    /\ run = 0
    /\ files0 = files
    /\ before = NoRun
    /\ last = NoCall
    /\ prev = NoCall
    /\ ncalls = 0

\* process_directory is entered: the counters are set to 0.  A run after the
\* first leaves what the run before it found in `before`.
Begin ==
    /\ pc \in {"idle", "done"}
    /\ run < MaxRuns
    /\ run' = run + 1
    /\ before' = IF run = 0 THEN NoRun
                 ELSE [status |-> status, summary |-> summary,
                       update_calls |-> update_calls, reported |-> reported]
    /\ file_count' = 0
    /\ updated_count' = 0
    /\ idx' = 0
    /\ need' = FALSE
    /\ status' = [i \in 1..Len(files) |-> "unseen"]
    /\ extracted' = [i \in 1..Len(files) |-> NoCall]
    /\ update_calls' = {}
    /\ reported' = {}
    /\ summary' = NoSummary
    /\ files0' = files
    /\ pc' = "loop"
    /\ UNCHANGED <<files, configVars, callVars>>

\* find_images yields the next file and the loop counts it.
Yield ==
    /\ pc = "loop"
    /\ idx < Len(files)
    /\ idx' = idx + 1
    /\ file_count' = file_count + 1
    /\ status' = [status EXCEPT ![idx + 1] = "start"]
    /\ pc' = "needs_update"
    /\ UNCHANGED <<files, configVars, updated_count, need, extracted, update_calls,
                   reported, summary, run, files0, before, callVars>>

\* _needs_update: get_image_date, then the comparison with max_date.  An
\* exception of get_image_date is caught by the loop's except clause.
NeedsUpdate ==
    /\ pc = "needs_update"
    /\ \E result \in {get_image_date(files[idx], default_date)} :
           /\ extracted' = [extracted EXCEPT ![idx] =
                               [NoCall EXCEPT !.op = "get",
                                              !.had_exif = files[idx].has_exif,
                                              !.read = read_date_str(files[idx]),
                                              !.kind = result.kind,
                                              !.value = result.value,
                                              !.exc = result.exc,
                                              !.log = result.log]]
           /\ status' = [status EXCEPT ![idx] = extract_status(result)]
           /\ IF result.kind = "return"
              THEN /\ need' = needs_update(result.value, max_date)
                   /\ pc' = "branch"
                   /\ UNCHANGED reported
              ELSE /\ need' = FALSE
                   /\ reported' = reported \cup {idx}
                   /\ pc' = after_error
    /\ UNCHANGED <<files, configVars, idx, file_count, updated_count, update_calls,
                   summary, run, files0, before, callVars>>

\* if self._needs_update(file_path): the file is updated or left alone.
Branch ==
    /\ pc = "branch"
    /\ IF need
       THEN /\ status' = [status EXCEPT ![idx] = "update-attempted"]
            /\ pc' = "update"
       ELSE /\ status' = [status EXCEPT ![idx] = "skip"]
            /\ pc' = "loop"
    /\ UNCHANGED <<files, configVars, idx, file_count, updated_count, need,
                   extracted, update_calls, reported, summary, run, files0, before,
                   callVars>>

\* _update_file and the increment after it; an exception of update_exif_date
\* is caught by the loop's except clause.
UpdateFile ==
    /\ pc = "update"
    /\ \E outcome \in {update_exif_date(files[idx], change_date, padYear)} :
           /\ files' = [files EXCEPT ![idx] = outcome.file]
           /\ update_calls' = update_calls \cup {idx}
           /\ updated_count' = count_update(updated_count, outcome)
           /\ IF outcome.kind = "return"
              THEN /\ status' = [status EXCEPT ![idx] = "updated"]
                   /\ pc' = "loop"
                   /\ UNCHANGED reported
              ELSE /\ status' = [status EXCEPT ![idx] = "update-failed"]
                   /\ reported' = reported \cup {idx}
                   /\ pc' = after_error
    /\ UNCHANGED <<configVars, idx, file_count, need, extracted, summary, run,
                   files0, before, callVars>>

\* The scan is exhausted: print(f'Processed {file_count} files, updated ...').
Summary ==
    /\ pc = "loop"
    /\ idx = Len(files)
    /\ summary' = [processed |-> file_count, updated |-> updated_count]
    /\ pc' = "done"
    /\ UNCHANGED <<files, configVars, idx, file_count, updated_count, need, status,
                   extracted, update_calls, reported, run, files0, before, callVars>>

BatchNext == Begin \/ Yield \/ NeedsUpdate \/ Branch \/ UpdateFile \/ Summary

\* The batch pipeline: one directory, process_directory run up to MaxRuns
\* times over it.
Spec == BatchInit /\ [][BatchNext]_vars

\* ------------------------------------------------- direct calls of a handler
HandlerInit ==
    /\ files \in { <<f>> : f \in HandlerFiles }
    /\ max_date = MAX_DATE
    /\ change_date = CHANGE_DATE
    /\ default_date \in (IF read_date_str(files[1]) = << >> THEN {Sentinel, D2020}
                         ELSE {Sentinel})
    /\ padYear \in BOOLEAN
    /\ pc = "api"
    /\ idx = 0
    /\ file_count = 0
    /\ updated_count = 0
    /\ need = FALSE
    /\ status = <<"unseen">>
    /\ extracted = <<NoCall>>
    /\ update_calls = {}
    /\ reported = {}
    /\ summary = NoSummary
    /\ run = 0
    /\ files0 = files
    /\ before = NoRun
    /\ last = NoCall
    /\ prev = NoCall
    /\ ncalls = 0

\* A direct call: the operation, its date-time argument, whether the file had
\* a metadata block and the DateTime text it held when called, and the outcome.
CallRecord(op, arg, file, kind, value, exc, log) ==
    [op |-> op, arg |-> arg, had_exif |-> file.has_exif,
     read |-> read_date_str(file), kind |-> kind, value |-> value, exc |-> exc,
     log |-> log]

\* handler.get_image_date(path)
CallGetImageDate ==
    /\ pc = "api"
    /\ ncalls < MaxCalls
    /\ \E result \in {get_image_date(files[1], default_date)} :
           last' = CallRecord("get", NoDt, files[1], result.kind,
                              result.value, result.exc, result.log)
    /\ prev' = last
    /\ ncalls' = ncalls + 1
    /\ UNCHANGED <<files, configVars, batchVars>>

\* image_functions.get_image_date(path)
CallFnGetImageDate ==
    /\ pc = "api"
    /\ ncalls < MaxCalls
    /\ \E result \in {fn_get_image_date(files[1])} :
           last' = CallRecord("fn_get", NoDt, files[1], result.kind,
                              result.value, result.exc, result.log)
    /\ prev' = last
    /\ ncalls' = ncalls + 1
    /\ UNCHANGED <<files, configVars, batchVars>>

\* handler.update_exif_date(path, new_date)
CallUpdateExifDate ==
    /\ pc = "api"
    /\ ncalls < MaxCalls
    /\ \E new_date \in UpdateDates :
          \E outcome \in {update_exif_date(files[1], new_date, padYear)} :
              /\ files' = <<outcome.file>>
              /\ last' = CallRecord("update", new_date, files[1],
                                    outcome.kind, NoDt, outcome.exc, << >>)
    /\ prev' = last
    /\ ncalls' = ncalls + 1
    /\ UNCHANGED <<configVars, batchVars>>

HandlerNext == CallGetImageDate \/ CallFnGetImageDate \/ CallUpdateExifDate

\* One file and a handler: any MaxCalls calls in a row.
SpecHandler == HandlerInit /\ [][HandlerNext]_vars

\* Both at once: a directory under the batch pipeline, or one file under
\* direct calls.
AllInit == BatchInit \/ HandlerInit

AllNext == BatchNext \/ HandlerNext

SpecAll == AllInit /\ [][AllNext]_vars

\* ================================================================== claims
\* The text _fix_invalid_hours is to hand to the parser for a text with an
\* invalid hour: offsets 11-12 replaced by "00".
RepairedText(s) == Slice(s, 0, 11) \o <<"0", "0">> \o SliceFrom(s, 13)

\* The two-character texts "00" .. "23".
HourTexts == { <<DigitOf(h \div 10), DigitOf(h % 10)>> : h \in 0..23 }

\* The latest direct call was get_image_date on a file with a stored date.
GotStoredDate == last.op = "get" /\ last.read # << >>

\* The one warning of a repair, naming the original text.
RepairWarning(s) == <<LogRecord("warning", "invalid_hour", s)>>

\* C1: for every stored date text of 20 characters or more whose offsets
\* 11-12 hold "24", get_image_date returns the date-time of the text with
\* the hour set to 00, raises nothing, and emits exactly one warning, which
\* holds the original text.
C1_Hour24LongTextReturnsDate ==
    (GotStoredDate /\ Len(last.read) >= 20 /\ Slice(last.read, 11, 13) = <<"2", "4">>)
    => /\ last.kind = "return"
       /\ last.value.hour = 0
       /\ Warnings(last.log) = RepairWarning(last.read)

C3_RoundTrip ==
    (last.op = "get" /\ prev.op = "update" /\ prev.kind = "return")
    => /\ last.kind = "return"
       /\ last.value = prev.arg
       /\ Warnings(last.log) = << >>

Files == 1..Len(files)

\* The states of a file the run is through with.
Terminal == {"skip", "updated", "update-failed", "extract-failed"}

\* The date extracted from file i exceeded the threshold.
Exceeded(i) ==
    /\ extracted[i].kind = "return"
    /\ \/ extracted[i].value.year > max_date.year
       \/ /\ extracted[i].value.year = max_date.year
          /\ <<extracted[i].value.month, extracted[i].value.day>>
                 # <<max_date.month, max_date.day>>
          /\ \/ extracted[i].value.month > max_date.month
             \/ /\ extracted[i].value.month = max_date.month
                /\ extracted[i].value.day > max_date.day
       \/ /\ extracted[i].value.year = max_date.year
          /\ extracted[i].value.month = max_date.month
          /\ extracted[i].value.day = max_date.day
          /\ extracted[i].value.hour * 3600 + extracted[i].value.minute * 60
                 + extracted[i].value.second
             > max_date.hour * 3600 + max_date.minute * 60 + max_date.second

\* How far a run has got: four steps per file, counted from the file the
\* loop is at and the position within its handling.
Progress ==
    idx * 4 + (CASE pc = "needs_update" -> 1
                 [] pc = "branch" -> 2
                 [] pc = "update" -> 3
                 [] pc = "loop" -> 4
                 [] pc = "done" -> 5
                 [] OTHER -> 0)

\* The run can take a step from where it stands.
CanStep ==
    \/ pc = "idle" /\ run < MaxRuns
    \/ pc = "loop" /\ idx <= Len(files)
    \/ pc \in {"needs_update", "branch", "update"} /\ idx \in Files

\* C5: no per-file failure ends the batch.  Whatever the files and their
\* outcomes, a run is never stuck before its summary and every step takes it
\* further, so it reaches the summary; and at the summary every file of the
\* scan has been counted and processed, those after a failing file included.
C5_NoFailureAbortsBatch ==
    /\ [](/\ (pc # "done" => CanStep)
          /\ (pc = "done"
              => /\ summary.processed = Len(files)
                 /\ file_count = Len(files)
                 /\ \A i \in Files : status[i] \in Terminal))
    /\ [][run' > run \/ (run' = run /\ Progress' > Progress)]_vars

\* C5's case: a run reached its summary although a file failed at
\* extraction and another at the update, with a file updated after them.
C5_Witness ==
    /\ pc = "done"
    /\ \E i, j, k \in Files :
          /\ i < k /\ j < k
          /\ status[i] = "extract-failed"
          /\ status[j] = "update-failed"
          /\ status[k] = "updated"
          /\ {i, j} \subseteq reported

\* C6: update_exif_date is called on a file if and only if the date
\* extracted from it is strictly greater than max_date; a file whose date is
\* less than or equal to max_date is never written and holds at the end of
\* the run what it held at its start.
C6_UpdateIffDateExceeds ==
    \A i \in Files :
        /\ i \in update_calls => Exceeded(i)
        /\ (status[i] \in Terminal /\ Exceeded(i)) => i \in update_calls
        /\ (extracted[i].kind = "return" /\ ~Exceeded(i))
           => /\ i \notin update_calls
              /\ files[i] = files0[i]
              /\ status[i] \in {"date-extracted", "skip"}

\* C6's case: at the end of a run a file dated exactly max_date was skipped
\* and left as it was, and a file dated later was updated.
C6_Witness ==
    /\ pc = "done"
    /\ \E i, j \in Files :
          /\ extracted[i].kind = "return" /\ extracted[i].value = max_date
          /\ status[i] = "skip" /\ files[i] = files0[i]
          /\ status[j] = "updated" /\ files[j] # files0[j]

\* The three files of the end-to-end scenario.
ScenarioFiles ==
    << FileWithDate(<<"2", "0", "2", "0", ":", "0", "1", ":", "0", "1", " ",
                      "1", "0", ":", "0", "0", ":", "0", "0">>),
       FileWithDate(<<"2", "0", "2", "5", ":", "0", "6", ":", "0", "1", " ",
                      "0", "0", ":", "0", "0", ":", "0", "0">>),
       FileWithoutExif(TRUE) >>

\* C7: the reported total is the number of files of the scan and the
\* reported updated count the number of files whose date exceeded the
\* threshold and whose update raised nothing; 0 <= updated_count <=
\* file_count throughout, and a file whose extraction or update raised is in
\* the total and not in the updated count (3 processed, 2 updated in the
\* scenario of three files).
C7_Counts ==
    /\ 0 <= updated_count /\ updated_count <= file_count
    /\ file_count = Cardinality({i \in Files : status[i] # "unseen"})
    /\ updated_count
       = Cardinality({i \in Files : Exceeded(i) /\ status[i] = "updated"})
    /\ updated_count = Cardinality(update_calls \ reported)
    /\ \A i \in reported : status[i] \in {"extract-failed", "update-failed"}
    /\ (pc = "done"
        => /\ summary.processed = Len(files)
           /\ summary.updated
              = Cardinality({i \in Files : Exceeded(i) /\ i \notin reported}))
    /\ (/\ pc = "done" /\ files0 = ScenarioFiles
        /\ max_date = Dt(2025, 1, 1, 1, 1, 1))
       => summary = [processed |-> 3, updated |-> 2]

\* C7's case: the scenario of three files under main()'s dates has reached
\* its summary, 3 processed and 2 updated.
C7_Witness ==
    /\ pc = "done"
    /\ files0 = ScenarioFiles
    /\ max_date = Dt(2025, 1, 1, 1, 1, 1)
    /\ change_date = Dt(2025, 1, 1, 0, 0, 0)
    /\ summary = [processed |-> 3, updated |-> 2]
    /\ status = <<"skip", "updated", "updated">>

\* The files are handled one at a time, in scan order: those before the
\* current one are through, those after it not yet seen, and the current one
\* is where the position in the loop says.
OneAtATime ==
    \A i \in Files :
        /\ i < idx => status[i] \in Terminal
        /\ i > idx => status[i] = "unseen"
        /\ i = idx
           => \/ pc = "needs_update" /\ status[i] = "start"
              \/ pc = "branch" /\ status[i] = "date-extracted"
              \/ pc = "update" /\ status[i] = "update-attempted"
              \/ pc \in {"loop", "done"} /\ status[i] \in Terminal

\* C8 as claimed: every file follows start -> date-extracted -> (skip |
\* update-attempted) -> (updated | update-failed): no update before the
\* extraction, one file at a time, and every file of a finished run in one
\* of skip, updated, update-failed.
C8_ThreeTerminalStates ==
    /\ OneAtATime
    /\ \A i \in update_calls : extracted[i].kind = "return"
    /\ (pc = "done" => \A i \in Files : status[i] \in {"skip", "updated", "update-failed"})

\* The steps a file's state may take within a run.
Edges ==
    { <<"unseen", "start">>, <<"start", "date-extracted">>,
      <<"start", "extract-failed">>, <<"date-extracted", "skip">>,
      <<"date-extracted", "update-attempted">>, <<"update-attempted", "updated">>,
      <<"update-attempted", "update-failed">> }

\* C8 as amended: every file follows start -> (date-extracted |
\* extract-failed), date-extracted -> (skip | update-attempted),
\* update-attempted -> (updated | update-failed).  A file whose extraction
\* raises ends in a fourth terminal state, extract-failed, straight from
\* start; no update is attempted before the extraction returned a date, the
\* files are handled one at a time, and every file of a finished run is in
\* exactly one of skip, updated, update-failed, extract-failed.
C8_FourTerminalStates ==
    /\ [](/\ OneAtATime
          /\ \A i \in update_calls : extracted[i].kind = "return"
          /\ \A i \in Files : status[i] = "extract-failed" <=> extracted[i].kind = "raise"
          /\ (pc = "done" => \A i \in Files : status[i] \in Terminal))
    /\ [][\A i \in Files :
              \/ status'[i] = status[i]
              \/ <<status[i], status'[i]>> \in Edges
              \/ run' # run /\ status'[i] = "unseen"]_vars

\* C8's case: a finished run with a file that failed at extraction, a file
\* that was skipped and a file that was updated.
C8_Witness ==
    /\ pc = "done"
    /\ \E i, j, k \in Files :
          /\ status[i] = "extract-failed"
          /\ status[j] = "skip"
          /\ status[k] = "updated"

\* A stored text the parser refuses even after the hour repair.
Unparseable(s) ==
    /\ s # << >>
    /\ ~Strptime(IF Slice(s, 11, 13) \in HourTexts THEN s ELSE RepairedText(s)).ok

\* C9: a stored date text that does not parse after the hour repair is a
\* hard error.  get_image_date raises a format error and does not return
\* the default date for it; in a batch run the file is reported as failed,
\* update_exif_date is not called on it, and it holds at the end of the run
\* what it held at its start.
C9_ParseFailureIsHardError ==
    /\ (last.op = "get" /\ Unparseable(last.read))
       => /\ last.kind = "raise"
          /\ last.exc = "ValueError"
          /\ last.value # default_date
    /\ \A i \in Files :
          (extracted[i].op = "get" /\ Unparseable(extracted[i].read))
          => /\ extracted[i].kind = "raise"
             /\ extracted[i].exc = "ValueError"
             /\ status[i] = "extract-failed"
             /\ i \in reported
             /\ i \notin update_calls
             /\ files[i] = files0[i]

\* C9's case: a batch run is finished, a file of it held a text that does
\* not parse, and a later file was updated.
C9_Witness ==
    /\ pc = "done"
    /\ \E i, j \in Files :
          /\ i < j
          /\ Unparseable(extracted[i].read)
          /\ status[i] = "extract-failed"
          /\ status[j] = "updated"

\* C10: with change_date <= max_date, every file a finished run updated
\* holds a date not greater than max_date, a following run calls no update
\* on those files and, if the run before it had no failures, reports 0
\* updated; with change_date > max_date a following run updates the same
\* files again.
C10_BatchConverges ==
    /\ (~DtGreater(change_date, max_date))
       => /\ (pc = "done"
              => \A i \in Files :
                    status[i] = "updated"
                    => /\ get_image_date(files[i], default_date).kind = "return"
                       /\ ~DtGreater(get_image_date(files[i], default_date).value,
                                     max_date))
          /\ (run >= 2
              => \A i \in Files : before.status[i] = "updated" => i \notin update_calls)
          /\ (run >= 2 /\ pc = "done" /\ before.reported = {}
              => summary.updated = 0)
    /\ (DtGreater(change_date, max_date) /\ run >= 2 /\ pc = "done")
       => \A i \in Files : before.status[i] = "updated" => status[i] = "updated"

====
